---- MODULE Spec2Model ----
(***************************************************************************)
(* Model of src/app.py: the historical dataset loader                      *)
(* (load_past_race_data) and the horse-history aggregation endpoint        *)
(* (api_get_horse_past_data).                                              *)
(*                                                                         *)
(* Text is modelled as a sequence of one-character strings, so that        *)
(* str.strip, int(), re.match and the substring tests are computed as the  *)
(* code computes them.  The source's Japanese text is written romanised:   *)
(*   columns  hizuke = date, bamei = horse name, chakujun = finish         *)
(*            position, basho = venue, kyori = distance,                   *)
(*            track_shubetsu = track type, baba_jotai = ground condition   *)
(*   letters  "shiba" = turf mark, "da" = dirt mark, "sho" = jump mark,    *)
(*            "yaya" "omo" "fu" "ryo" = the four ground-condition letters  *)
(*            (yaya+omo = slightly heavy, omo = heavy, fu+ryo = bad,       *)
(*            ryo = good), "Z0".."Z9" = full-width digits                  *)
(*   values   "Shiba" / "Daato" = the two track types                      *)
(***************************************************************************)
EXTENDS Integers, Sequences, FiniteSets, TLC

VARIABLES
    df_past_races,                  \* the global DataFrame: a sequence of rows
    load_result,                    \* history: "none", "ok" or "failed" (last load)
    pc,                             \* "startup", "idle" or "responding"
    request,                        \* the request being served, or NoRequest
    response,                       \* its response, or NoResponse
    horse_filtered_df_for_rates     \* the handler's rate rows after the filters

vars == <<df_past_races, load_result, pc, request, response, horse_filtered_df_for_rates>>

(* Largest number of data rows in the CSV file. *)
MaxRows == 3

\* ------------------------------------------------------------------ text

SP == " "

Digits == <<"0", "1", "2", "3", "4", "5", "6", "7", "8", "9">>

ZenDigits == <<"Z0", "Z1", "Z2", "Z3", "Z4", "Z5", "Z6", "Z7", "Z8", "Z9">>

Range(s) == {s[i] : i \in DOMAIN s}

\* zen_to_han: full-width digits to ASCII digits, everything else unchanged
ZenToHanChar(c) ==
    IF c \in Range(ZenDigits)
    THEN Digits[CHOOSE i \in DOMAIN ZenDigits : ZenDigits[i] = c]
    ELSE c

zen_to_han(text) == [i \in DOMAIN text |-> ZenToHanChar(text[i])]

RECURSIVE LStrip(_)
LStrip(s) == IF s # <<>> /\ Head(s) = SP THEN LStrip(Tail(s)) ELSE s

RECURSIVE RStrip(_)
RStrip(s) ==
    IF s # <<>> /\ s[Len(s)] = SP THEN RStrip(SubSeq(s, 1, Len(s) - 1)) ELSE s

\* str.strip()
Strip(s) == RStrip(LStrip(s))

\* `sub in s` for strings
Contains(s, sub) ==
    \E i \in 0..(Len(s) - Len(sub)) : SubSeq(s, i + 1, i + Len(sub)) = sub

\* a decimal digit as Python's int() and \d see it (ASCII or full-width)
IsDigit(c) == c \in Range(Digits) \cup Range(ZenDigits)

DigitVal(c) == (CHOOSE i \in DOMAIN Digits : Digits[i] = ZenToHanChar(c)) - 1

RECURSIVE DigitsValue(_, _)
DigitsValue(s, acc) ==
    IF s = <<>> THEN acc ELSE DigitsValue(Tail(s), acc * 10 + DigitVal(Head(s)))

\* int(text): ok is FALSE where Python raises ValueError
ParseInt(text) ==
    LET t == Strip(text)
        signed == t # <<>> /\ Head(t) \in {"-", "+"}
        body == IF signed THEN Tail(t) ELSE t
    IN  IF body # <<>> /\ \A i \in DOMAIN body : IsDigit(body[i])
        THEN [ok |-> TRUE,
              val |-> IF signed /\ Head(t) = "-"
                      THEN 0 - DigitsValue(body, 0) ELSE DigitsValue(body, 0)]
        ELSE [ok |-> FALSE, val |-> 0]

\* the longest prefix of digits: what (\d+) matches
RECURSIVE DigitPrefix(_)
DigitPrefix(s) ==
    IF s # <<>> /\ IsDigit(Head(s)) THEN <<Head(s)>> \o DigitPrefix(Tail(s)) ELSE <<>>

\* ------------------------------------------------------------------ loader

NaN == <<>>         \* an empty CSV cell

NaT == [iso |-> "NaT"]

DateTexts == {"2024-05-05", "2024-06-02"}

\* pd.to_datetime(errors='coerce') followed by .dt.date
ParseDate(cell) == IF cell \in DateTexts THEN [iso |-> cell] ELSE NaT

NoTrack == [ok |-> FALSE, track |-> "", distance |-> 0]

parse_distance_and_track_type(dist_str) ==
    IF dist_str = NaN THEN NoTrack
    ELSE LET dist_str_half == zen_to_han(Strip(dist_str))
             digits == IF dist_str_half = <<>> THEN <<>>
                       ELSE DigitPrefix(Tail(dist_str_half))
         IN  IF dist_str_half # <<>> /\ Head(dist_str_half) \in {"shiba", "da"}
                /\ digits # <<>>
             THEN [ok |-> TRUE,
                   track |-> IF Head(dist_str_half) = "shiba" THEN "Shiba" ELSE "Daato",
                   distance |-> DigitsValue(digits, 0)]
             ELSE NoTrack

\* df['bamei'].astype(str).str.strip(): an empty cell becomes the text nan
CleanName(cell) == IF cell = NaN THEN <<"n", "a", "n">> ELSE Strip(cell)

\* one CSV row after lines 35-54; ok is FALSE when dropna (line 64) drops it
CleanRow(raw) ==
    LET p == parse_distance_and_track_type(raw.kyori)
        d == ParseDate(raw.hizuke)
    IN  [ok |-> d # NaT /\ raw.chakujun # NaN /\ raw.basho # "" /\ p.ok
                /\ raw.baba_jotai # NaN,     \* bamei is text after astype(str)
         row |-> [hizuke |-> d,
                  bamei |-> CleanName(raw.bamei),
                  chakujun |-> raw.chakujun,
                  basho |-> raw.basho,
                  track_shubetsu |-> p.track,
                  kyori |-> p.distance,
                  baba_jotai |-> raw.baba_jotai]]

RECURSIVE DropNa(_)
DropNa(rows) ==
    IF rows = <<>> THEN <<>>
    ELSE LET c == CleanRow(Head(rows))
         IN  (IF c.ok THEN <<c.row>> ELSE <<>>) \o DropNa(Tail(rows))

\* reset_index(drop=True): the rows get the index 0..n-1
ResetIndex(rows) ==
    [i \in DOMAIN rows |->
        [index |-> i - 1, hizuke |-> rows[i].hizuke, bamei |-> rows[i].bamei,
         chakujun |-> rows[i].chakujun, basho |-> rows[i].basho,
         track_shubetsu |-> rows[i].track_shubetsu, kyori |-> rows[i].kyori,
         baba_jotai |-> rows[i].baba_jotai]]

EmptyFrame == <<>>  \* pd.DataFrame()

AllColumns == {"hizuke", "bamei", "chakujun", "basho", "kyori", "baba_jotai"}

required_cols ==
    {"hizuke", "bamei", "chakujun", "basho", "track_shubetsu", "kyori", "baba_jotai"}

\* line 58, after line 54 has added track_shubetsu and rewritten kyori
missing_cols(columns) == required_cols \ (columns \cup {"track_shubetsu"})

\* how a load ends: "fnf" FileNotFoundError, "exception" any other exception
\* (the KeyError of lines 41 and 54 on a file without hizuke or kyori),
\* "nocol" a missing column the loader reports itself (lines 37, 60), "ok"
LoadOutcome(file) ==
    IF ~file.exists THEN "fnf"
    ELSE IF "bamei" \notin file.columns THEN "nocol"
    ELSE IF "hizuke" \notin file.columns \/ "kyori" \notin file.columns THEN "exception"
    ELSE IF missing_cols(file.columns) # {} THEN "nocol"
    ELSE "ok"

\* the value of df_past_races after load_past_race_data() read `file`
LoadedFrame(old, file) ==
    CASE LoadOutcome(file) = "ok" -> ResetIndex(DropNa(file.rows))
      [] LoadOutcome(file) = "nocol" -> EmptyFrame
      [] OTHER -> old

\* ------------------------------------------------------------------ request

\* a query parameter that is absent or empty (request.args.get gives None or '')
Absent == <<>>

\* df_past_races[df_past_races['bamei'] == horse_name]
SelectHorse(df, horse_name) ==
    LET Match(row) == row.bamei = horse_name IN SelectSeq(df, Match)

\* isoformat() of the date, and to_dict(orient='records'), which has no index
JsonRow(row) ==
    [hizuke |-> row.hizuke.iso, bamei |-> row.bamei, chakujun |-> row.chakujun,
     basho |-> row.basho, track_shubetsu |-> row.track_shubetsu,
     kyori |-> row.kyori, baba_jotai |-> row.baba_jotai]

past_races_data_for_json(rows) == [i \in DOMAIN rows |-> JsonRow(rows[i])]

TrackTypes == {"Shiba", "Daato"}

\* lines 334-339
FilterTrackType(rows, track_type) ==
    IF track_type # "" /\ track_type \in TrackTypes
    THEN LET Keep(row) == row.track_shubetsu = track_type IN SelectSeq(rows, Keep)
    ELSE rows

\* a bound that int() rejects leaves no row
FilterDistance_RejectsMalformed(rows, distance_min, distance_max) ==
    IF distance_min # Absent \/ distance_max # Absent
    THEN LET min_val == ParseInt(distance_min)
             max_val == ParseInt(distance_max)
             Keep(row) ==
                 /\ distance_min # Absent => (min_val.ok /\ row.kyori >= min_val.val)
                 /\ distance_max # Absent => (max_val.ok /\ row.kyori <= max_val.val)
         IN  SelectSeq(rows, Keep)
    ELSE rows

\* lines 341-362: a bound that int() rejects is passed over
FilterDistance(rows, distance_min, distance_max) ==
    IF distance_min # Absent \/ distance_max # Absent
    THEN LET min_val == ParseInt(distance_min)
             max_val == ParseInt(distance_max)
             Keep(row) ==
                 /\ (distance_min # Absent /\ min_val.ok) => row.kyori >= min_val.val
                 /\ (distance_max # Absent /\ max_val.ok) => row.kyori <= max_val.val
         IN  SelectSeq(rows, Keep)
    ELSE rows

\* a venue that matches no row filters nothing
FilterVenue_KeepIfNone(rows, venue) ==
    LET Keep(row) == row.basho = venue
    IN  IF venue # "" /\ SelectSeq(rows, Keep) # <<>> THEN SelectSeq(rows, Keep) ELSE rows

\* lines 365-370
FilterVenue(rows, venue) ==
    IF venue # ""
    THEN LET Keep(row) == row.basho = venue IN SelectSeq(rows, Keep)
    ELSE rows

Ryo == <<"ryo">>

YayaOmo == <<"yaya", "omo">>

Omo == <<"omo">>

FuRyo == <<"fu", "ryo">>

\* the letter str.contains looks for, lines 374-389; <<>> when there is no branch
ConditionLetter(track_condition) ==
    CASE track_condition = Ryo -> <<"ryo">>
      [] track_condition = YayaOmo -> <<"yaya">>
      [] track_condition = Omo -> <<"omo">>
      [] track_condition = FuRyo -> <<"fu">>
      [] OTHER -> <<>>

\* lines 372-389
FilterTrackCondition(rows, track_condition) ==
    IF track_condition # Absent /\ ConditionLetter(track_condition) # <<>>
    THEN LET Keep(row) == Contains(row.baba_jotai, ConditionLetter(track_condition))
         IN  SelectSeq(rows, Keep)
    ELSE rows

\* lines 330-389: the filters one after the other
ApplyFilters(rows, req) ==
    FilterTrackCondition(
        FilterVenue(
            FilterDistance(FilterTrackType(rows, req.track_type),
                           req.distance_min, req.distance_max),
            req.venue),
        req.track_condition)

\* ------------------------------------------------------------------ rates

Categories == <<"distance_track", "racecourse", "track_condition", "distance", "track_type">>

\* the heavy letter tested before the bad one
TrackConditionKey_HeavyFirst(track_condition_val) ==
    IF Contains(track_condition_val, YayaOmo) THEN YayaOmo
    ELSE IF Contains(track_condition_val, <<"omo">>) THEN Omo
    ELSE IF Contains(track_condition_val, <<"fu">>) \/ Contains(track_condition_val, FuRyo)
         THEN FuRyo
    ELSE IF Contains(track_condition_val, <<"ryo">>) THEN Ryo
    ELSE track_condition_val

\* lines 429-439: the bucket of a ground-condition label
TrackConditionKey(track_condition_val) ==
    IF Contains(track_condition_val, YayaOmo) THEN YayaOmo
    ELSE IF Contains(track_condition_val, <<"fu">>) \/ Contains(track_condition_val, FuRyo)
         THEN FuRyo
    ELSE IF Contains(track_condition_val, <<"omo">>) THEN Omo
    ELSE IF Contains(track_condition_val, <<"ryo">>) THEN Ryo
    ELSE track_condition_val

\* lines 419-448: the (category, key) pairs of a row, in the order they are appended
conditions_to_process(row) ==
    << <<"distance_track", <<row.track_shubetsu, row.kyori, "m">> >>,
       <<"racecourse", row.basho>>,
       <<"track_condition", TrackConditionKey(row.baba_jotai)>>,
       <<"distance", <<row.kyori, "m">> >>,
       <<"track_type", row.track_shubetsu>> >>

IsWin(chakujun) == chakujun = 1

\* == written for <=
IsTop3_Only3rd(chakujun) == chakujun = 3

IsTop3(chakujun) == chakujun <= 3

HasKey(items, key) == \E i \in DOMAIN items : items[i].key = key

\* lines 451-458 on one category's dict, kept in insertion order
Count(items, key, chakujun) ==
    LET with == IF HasKey(items, key) THEN items
                ELSE Append(items, [key |-> key, total |-> 0, wins |-> 0, top3s |-> 0])
    IN  [i \in DOMAIN with |->
            IF with[i].key = key
            THEN [key |-> key,
                  total |-> with[i].total + 1,
                  wins |-> with[i].wins + (IF IsWin(chakujun) THEN 1 ELSE 0),
                  top3s |-> with[i].top3s + (IF IsTop3(chakujun) THEN 1 ELSE 0)]
            ELSE with[i]]

RawEmpty == [c \in Range(Categories) |-> <<>>]

\* lines 406-412: the finish position of a row; ok is FALSE when the row is skipped
FinishOf(row) == IF row.chakujun = NaN THEN [ok |-> FALSE, val |-> 0] ELSE ParseInt(row.chakujun)

RECURSIVE CountAll(_, _, _)
CountAll(raw, conds, chakujun) ==
    IF conds = <<>> THEN raw
    ELSE LET category == Head(conds)[1]
             key == Head(conds)[2]
         IN  CountAll([raw EXCEPT ![category] = Count(raw[category], key, chakujun)],
                      Tail(conds), chakujun)

\* a row without a finish position counted as a race run
ProcessRow_CountsUnplaced(raw, row) ==
    IF FinishOf(row).ok
    THEN CountAll(raw, conditions_to_process(row), FinishOf(row).val)
    ELSE CountAll(raw, conditions_to_process(row), 99)

\* lines 405-458: one iteration of the loop over the rate rows
ProcessRow(raw, row) ==
    IF FinishOf(row).ok
    THEN CountAll(raw, conditions_to_process(row), FinishOf(row).val)
    ELSE raw

RECURSIVE good_performance_rates_raw(_, _)
good_performance_rates_raw(raw, rows) ==
    IF rows = <<>> THEN raw
    ELSE good_performance_rates_raw(ProcessRow(raw, Head(rows)), Tail(rows))

\* round(x, 2) of x = num / den, in hundredths (ties to even)
Round2(num, den) ==
    LET q == (num * 100) \div den
        r == (num * 100) % den
    IN  IF 2 * r < den THEN q
        ELSE IF 2 * r > den THEN q + 1
        ELSE IF q % 2 = 0 THEN q ELSE q + 1

\* the fraction, not the percentage
Rate_Fraction(count, total) == IF total > 0 THEN Round2(count, total) ELSE 0

\* lines 468-469, 476-477: a rate in hundredths of a percent point (3333 is 33.33)
Rate(count, total) == IF total > 0 THEN Round2(count * 100, total) ELSE 0

\* lines 463-478
Entry(stats) ==
    [condition |-> stats.key, total_races |-> stats.total, wins |-> stats.wins,
     top3s |-> stats.top3s, win_rate |-> Rate(stats.wins, stats.total),
     top3_rate |-> Rate(stats.top3s, stats.total)]

\* e goes before the entries with as many races: ties in reverse order
RECURSIVE InsertByTotal_TiesFirst(_, _)
InsertByTotal_TiesFirst(sorted, e) ==
    IF sorted = <<>> THEN <<e>>
    ELSE IF Head(sorted).total_races > e.total_races
         THEN <<Head(sorted)>> \o InsertByTotal_TiesFirst(Tail(sorted), e)
         ELSE <<e>> \o sorted

\* e goes behind every entry with at least as many races: a stable descending sort
RECURSIVE InsertByTotal(_, _)
InsertByTotal(sorted, e) ==
    IF sorted = <<>> THEN <<e>>
    ELSE IF Head(sorted).total_races >= e.total_races
         THEN <<Head(sorted)>> \o InsertByTotal(Tail(sorted), e)
         ELSE <<e>> \o sorted

RECURSIVE SortFrom(_, _)
SortFrom(sorted, rest) ==
    IF rest = <<>> THEN sorted ELSE SortFrom(InsertByTotal(sorted, Head(rest)), Tail(rest))

\* lines 480-484: sorted(..., key=total_races, reverse=True)
SortedByTotal(entries) == SortFrom(<<>>, entries)

\* lines 460-484: the emitted dict, as (category, list) pairs in insertion order
final_good_performance_rates(raw) ==
    [i \in DOMAIN Categories |->
        <<Categories[i],
          SortedByTotal([j \in DOMAIN raw[Categories[i]] |-> Entry(raw[Categories[i]][j])])>>]

\* ------------------------------------------------------------------ handler

ErrorResponse == [status |-> 500, body |-> [error |-> "not loaded"]]

Success(past_races, rates) ==
    [status |-> 200, body |-> [past_races |-> past_races, good_performance_rates |-> rates]]

\* line 314
TrimmedName(horse_name) == Strip(horse_name)

\* past_races taken from the rows the filters left
BuildResponse_FilteredPast(all_past_races, for_rates) ==
    IF for_rates = <<>>
    THEN Success(past_races_data_for_json(for_rates), <<>>)
    ELSE Success(past_races_data_for_json(for_rates),
                 final_good_performance_rates(
                     good_performance_rates_raw(RawEmpty, for_rates)))

\* lines 324-330 and 394-486: the response built from the horse's rows (copied
\* before the filters) and from the rows the filters left
BuildResponse(all_past_races, for_rates) ==
    IF for_rates = <<>>
    THEN Success(past_races_data_for_json(all_past_races), <<>>)
    ELSE Success(past_races_data_for_json(all_past_races),
                 final_good_performance_rates(
                     good_performance_rates_raw(RawEmpty, for_rates)))

\* lines 311-486: the response, and the rate rows the handler ended with
\* (none when it returned before the filters)
api_get_horse_past_data(df, req) ==
    LET horse_name == TrimmedName(req.horse_name)
        horse_filtered_df_all_past_races == SelectHorse(df, horse_name)
        for_rates == ApplyFilters(horse_filtered_df_all_past_races, req)
    IN  IF df = EmptyFrame THEN [response |-> ErrorResponse, for_rates |-> <<>>]
        ELSE IF horse_filtered_df_all_past_races = <<>>
             THEN [response |-> Success(<<>>, <<>>), for_rates |-> <<>>]
        ELSE [response |-> BuildResponse(horse_filtered_df_all_past_races, for_rates),
              for_rates |-> for_rates]

\* ------------------------------------------------------------------ inputs

Raw(hizuke, bamei, chakujun, basho, kyori, baba_jotai) ==
    [hizuke |-> hizuke, bamei |-> bamei, chakujun |-> chakujun, basho |-> basho,
     kyori |-> kyori, baba_jotai |-> baba_jotai]

Shiba1600 == <<"shiba", "1", "6", "0", "0">>

Da1800 == <<"da", "1", "8", "0", "0">>

\* the three rows of the example: 1st on Tokyo turf 1600 good, 4th on Tokyo turf
\* 1600 heavy (name and distance as the CSV may hold them: padded, full-width),
\* 2nd on Kyoto dirt 1800 good
ExampleRows ==
    << Raw("2024-05-05", <<"H">>, <<"1">>, "Tokyo", Shiba1600, Ryo),
       Raw("2024-05-05", <<"H", " ">>, <<"4">>, "Tokyo",
           <<"shiba", "Z1", "Z6", "Z0", "Z0">>, Omo),
       Raw("2024-06-02", <<"H">>, <<"2">>, "Kyoto", Da1800, Ryo) >>

\* the rows a CSV file is made of: the example's, a 3rd place on slightly heavy
\* ground, a race not finished, another horse, a jump race (no track type is
\* parsed) and a date that is none
RawPool ==
    Range(ExampleRows) \cup
    { Raw("2024-06-02", <<"H">>, <<"3">>, "Kyoto", Shiba1600, YayaOmo),
      Raw("2024-05-05", <<"H">>, <<"chu", "shi">>, "Tokyo", Shiba1600, Ryo),
      Raw("2024-05-05", <<"G">>, <<"1">>, "Tokyo", Shiba1600, Ryo),
      Raw("2024-05-05", <<"H">>, <<"1">>, "Tokyo", <<"sho", "3", "0", "0", "0">>, Ryo),
      Raw("2024-13-41", <<"H">>, <<"1">>, "Kyoto", Da1800, Omo) }

\* rows of one horse on one course that differ in the ground-condition label (the
\* four labels, and labels holding the letters of two of them) and in the finish
\* position (zero and negative numbers included)
GroundPool ==
    { Raw("2024-05-05", <<"H">>, <<"1">>, "Tokyo", Shiba1600, Ryo),
      Raw("2024-05-05", <<"H">>, <<"4">>, "Tokyo", Shiba1600, Omo),
      Raw("2024-05-05", <<"H">>, <<"3">>, "Tokyo", Shiba1600, YayaOmo),
      Raw("2024-05-05", <<"H">>, <<"2">>, "Tokyo", Shiba1600, FuRyo),
      Raw("2024-05-05", <<"H">>, <<"-", "1">>, "Tokyo", Shiba1600, <<"omo", "fu">>),
      Raw("2024-05-05", <<"H">>, <<"0">>, "Tokyo", Shiba1600, <<"fu", "yaya", "omo">>),
      Raw("2024-05-05", <<"H">>, <<"1", "0">>, "Tokyo", Shiba1600, <<"yaya">>) }

CsvFile(exists, columns, rows) == [exists |-> exists, columns |-> columns, rows |-> rows]

\* the files the loader may find: none, one without a column, one with up to
\* MaxRows rows of `pool`
FilesOf(pool) ==
    {CsvFile(FALSE, {}, <<>>)}
    \cup {CsvFile(TRUE, AllColumns \ {c}, <<>>) : c \in {"bamei", "hizuke", "kyori", "baba_jotai"}}
    \cup {CsvFile(TRUE, AllColumns, rows) :
            rows \in UNION {[1..n -> pool] : n \in 0..MaxRows}}

Files == FilesOf(RawPool)

GroundFiles == FilesOf(GroundPool)

Req(horse_name, track_type, distance_min, distance_max, venue, track_condition) ==
    [horse_name |-> horse_name, track_type |-> track_type,
     distance_min |-> distance_min, distance_max |-> distance_max,
     venue |-> venue, track_condition |-> track_condition]

DistanceTexts == {Absent, <<"1", "7", "0", "0">>, <<"a", "b", "c">>}

Requests ==
    {Req(<<"H", " ">>, tt, dmin, dmax, v, tc) :
        tt \in {"", "Shiba"}, dmin \in DistanceTexts, dmax \in DistanceTexts,
        v \in {"", "Tokyo"}, tc \in {Absent, Omo}}

GroundRequests ==
    {Req(<<"H">>, tt, Absent, Absent, "", tc) :
        tt \in {"", "Baba"},
        tc \in {Absent, Ryo, YayaOmo, Omo, FuRyo, <<"yaya">>}}

NoRequest == Req(<<>>, "", Absent, Absent, "", Absent)

NoResponse == [status |-> 0, body |-> [none |-> TRUE]]

\* ------------------------------------------------------------------ behaviour

Init ==
    /\ df_past_races = EmptyFrame        \* line 18
    /\ load_result = "none"
    /\ pc = "startup"
    /\ request = NoRequest
    /\ response = NoResponse
    /\ horse_filtered_df_for_rates = <<>>

\* load_past_race_data(), lines 26-71
load_past_race_data(file) ==
    /\ df_past_races' = LoadedFrame(df_past_races, file)
    /\ load_result' = IF LoadOutcome(file) = "ok" THEN "ok" ELSE "failed"
    /\ pc' = "idle"
    /\ UNCHANGED <<request, response, horse_filtered_df_for_rates>>

\* lines 73-74: the load at import, before any request is served
Startup(files) == pc = "startup" /\ \E file \in files : load_past_race_data(file)

\* a later call of load_past_race_data(), between two requests
Reload(files) == pc = "idle" /\ \E file \in files : load_past_race_data(file)

\* GET /api/horse_past_data/<horse_name>, lines 300-486
HandleRequest(requests) ==
    /\ pc = "idle"
    /\ \E req \in requests :
        LET out == api_get_horse_past_data(df_past_races, req)
        IN  /\ request' = req
            /\ response' = out.response
            /\ horse_filtered_df_for_rates' = out.for_rates
    /\ pc' = "responding"
    /\ UNCHANGED <<df_past_races, load_result>>

\* the response is sent; the server waits for the next request
SendResponse ==
    /\ pc = "responding"
    /\ pc' = "idle"
    /\ request' = NoRequest
    /\ response' = NoResponse
    /\ horse_filtered_df_for_rates' = <<>>
    /\ UNCHANGED <<df_past_races, load_result>>

Next == Startup(Files) \/ HandleRequest(Requests) \/ SendResponse

\* the server as it runs: one load at import, then requests
Spec == Init /\ [][Next]_vars

NextGround == Startup(GroundFiles) \/ HandleRequest(GroundRequests) \/ SendResponse

\* the same server over files that vary the ground-condition labels
SpecGround == Init /\ [][NextGround]_vars

NextReload == Startup(Files) \/ Reload(Files) \/ HandleRequest(Requests) \/ SendResponse

\* the same server when load_past_race_data() is called again while it runs
SpecReload == Init /\ [][NextReload]_vars

\* ------------------------------------------------------------------ claims

Responding == pc = "responding"

Succeeded == Responding /\ response.status = 200

NoFilters(req) == Req(req.horse_name, "", Absent, Absent, "", Absent)

\* the (category, list) pairs of the response, none for an error
RatesOfResponse == IF Succeeded THEN response.body.good_performance_rates ELSE <<>>

\* P holds of every entry emitted in the response
EveryEntry(P(_, _)) ==
    \A i \in DOMAIN RatesOfResponse : \A j \in DOMAIN RatesOfResponse[i][2] :
        P(RatesOfResponse[i][1], RatesOfResponse[i][2][j])

SomeEntry(P(_, _)) ==
    \E i \in DOMAIN RatesOfResponse : \E j \in DOMAIN RatesOfResponse[i][2] :
        P(RatesOfResponse[i][1], RatesOfResponse[i][2][j])

\* t is s without the blanks around it
IsTrimOf(t, s) ==
    /\ t = <<>> \/ (Head(t) # SP /\ t[Len(t)] # SP)
    /\ \E a \in 0..Len(s) :
        /\ a + Len(t) <= Len(s)
        /\ SubSeq(s, a + 1, a + Len(t)) = t
        /\ \A k \in (1..a) \cup ((a + Len(t) + 1)..Len(s)) : s[k] = SP

\* the records of the dataset under the requested name, in dataset order
ExpectedPastRaces ==
    LET Named(row) == IsTrimOf(row.bamei, request.horse_name)
    IN  past_races_data_for_json(SelectSeq(df_past_races, Named))

\* C1: whatever the filter parameters, a loaded dataset is answered with a
\* result whose past_races are all records of the dataset under the trimmed
\* requested name, in dataset order: the filters reach good_performance_rates
\* alone (also when they leave no record for the rates).
PastRacesIgnoreFilters ==
    /\ Responding => (Succeeded <=> df_past_races # EmptyFrame)
    /\ Succeeded =>
        /\ response.body.past_races = ExpectedPastRaces
        /\ DOMAIN response.body = {"past_races", "good_performance_rates"}

\* a request whose filters leave no row for the rates, for a horse with two or
\* more records in a dataset that holds other records too
PastRacesIgnoreFilters_Witness ==
    /\ Succeeded
    /\ request # NoFilters(request)
    /\ horse_filtered_df_for_rates = <<>>
    /\ response.body.good_performance_rates = <<>>
    /\ Len(response.body.past_races) >= 2
    /\ Len(df_past_races) > Len(response.body.past_races)

\* C2: every emitted entry has top3s >= wins.
Top3sAtLeastWins ==
    LET Holds(category, e) == e.top3s >= e.wins IN EveryEntry(Holds)

\* an entry with a win and with a top-3 finish that is no win
Top3sAtLeastWins_Witness ==
    LET Case(category, e) == e.wins >= 1 /\ e.top3s > e.wins IN SomeEntry(Case)

\* C3 as stated: both rates are in [0,100] and each is 0 exactly when
\* total_races is 0.
RateZeroIffNoRaces ==
    LET Holds(category, e) ==
            /\ e.win_rate \in 0..10000 /\ e.top3_rate \in 0..10000
            /\ e.win_rate = 0 <=> e.total_races = 0
            /\ e.top3_rate = 0 <=> e.total_races = 0
    IN  EveryEntry(Holds)

\* r is count / total * 100 rounded to two decimals, in hundredths
IsRounded(r, count, total) ==
    LET d == r * total - count * 10000 IN 2 * d <= total /\ 2 * (0 - d) <= total

\* C3, amended: every emitted entry has total_races >= 1; win_rate is
\* wins / total_races * 100 and top3_rate is top3s / total_races * 100, rounded
\* to two decimals and in [0,100]; a rate is 0 whenever its counter (wins,
\* top3s) is 0, which happens with total_races > 0.
RatesInRangeZeroWithoutHits ==
    LET Holds(category, e) ==
            /\ e.total_races >= 1
            /\ e.win_rate \in 0..10000 /\ e.top3_rate \in 0..10000
            /\ IsRounded(e.win_rate, e.wins, e.total_races)
            /\ IsRounded(e.top3_rate, e.top3s, e.total_races)
            /\ e.wins = 0 => e.win_rate = 0
            /\ e.top3s = 0 => e.top3_rate = 0
    IN  EveryEntry(Holds)

\* an entry of three races with a rate of 0 and a rate that is rounded (33.33)
RatesInRangeZeroWithoutHits_Witness ==
    LET Case(category, e) ==
            e.total_races = 3 /\ e.win_rate = 0 /\ e.top3_rate = 3333
    IN  SomeEntry(Case)

Params == {"track_type", "distance_min", "distance_max", "venue", "track_condition"}

\* the request with the filter parameters outside S taken away
Only(req, S) ==
    Req(req.horse_name,
        IF "track_type" \in S THEN req.track_type ELSE "",
        IF "distance_min" \in S THEN req.distance_min ELSE Absent,
        IF "distance_max" \in S THEN req.distance_max ELSE Absent,
        IF "venue" \in S THEN req.venue ELSE "",
        IF "track_condition" \in S THEN req.track_condition ELSE Absent)

Indexes(rows) == {rows[i].index : i \in DOMAIN rows}

\* the records a request leaves for the rates
RateRowsOf(req) ==
    Indexes(ApplyFilters(SelectHorse(df_past_races, TrimmedName(req.horse_name)), req))

\* the records the request leaves for the rates when p is its only filter
Alone(p) == RateRowsOf(Only(request, {p}))

\* C4: the records a request leaves for the rates are those that each of its
\* filter parameters leaves when given alone (the requests range over every
\* subset of the five parameters, so this is so for two filters and for any
\* number of them).
FiltersAreConjunctive ==
    Responding =>
        Indexes(horse_filtered_df_for_rates) =
            Alone("track_type") \cap Alone("distance_min") \cap Alone("distance_max")
                \cap Alone("venue") \cap Alone("track_condition")

\* two filters that each keep a record the other drops, with a record that
\* both keep
FiltersAreConjunctive_Witness ==
    /\ Responding
    /\ horse_filtered_df_for_rates # <<>>
    /\ \E p \in Params : \E q \in Params :
        ~(Alone(p) \subseteq Alone(q)) /\ ~(Alone(q) \subseteq Alone(p))

\* the rate rows with a finish position that is an integer
Counted ==
    LET Placed(row) == ParseInt(row.chakujun).ok
    IN  SelectSeq(horse_filtered_df_for_rates, Placed)

Finish(row) == ParseInt(row.chakujun).val

\* the markers of the ground-condition buckets, first match first
Precedence ==
    << <<YayaOmo, YayaOmo>>, << <<"fu">>, FuRyo>>, << <<"omo">>, Omo>>, << <<"ryo">>, Ryo>> >>

BucketOf(label) ==
    LET hits == {i \in DOMAIN Precedence : Contains(label, Precedence[i][1])}
    IN  IF hits = {} THEN label
        ELSE Precedence[CHOOSE i \in hits : \A k \in hits : i <= k][2]

\* the key a record has in a category
ExpectedKey(category, row) ==
    CASE category = "distance_track" -> <<row.track_shubetsu, row.kyori, "m">>
      [] category = "racecourse" -> row.basho
      [] category = "track_condition" -> BucketOf(row.baba_jotai)
      [] category = "distance" -> <<row.kyori, "m">>
      [] category = "track_type" -> row.track_shubetsu

Counters(e) ==
    [condition |-> e.condition, total_races |-> e.total_races, wins |-> e.wins,
     top3s |-> e.top3s]

ExampleFrame == ResetIndex(DropNa(ExampleRows))

\* the distance_track list of the response
DistanceTrack ==
    LET list == RatesOfResponse[CHOOSE i \in DOMAIN RatesOfResponse :
                                    RatesOfResponse[i][1] = "distance_track"][2]
    IN  [j \in DOMAIN list |-> Counters(list[j])]

\* the records of `counted` under a key of a category
Under(counted, category, key) ==
    {k \in DOMAIN counted : ExpectedKey(category, counted[k]) = key}

\* C5: the rates hold the five categories; in each, every key of a counted
\* record (a rate row with an integer finish position) has one entry, whose
\* total_races, wins and top3s are the numbers of counted records under the key,
\* of those that finished 1st, and of those that finished 3rd or better; other
\* rows count nowhere.  The example without filters gives turf 1600 m (2, 1, 1),
\* then dirt 1800 m (1, 0, 1).
CountersAreCounts ==
    /\ (Succeeded /\ RatesOfResponse # <<>>) =>
        LET counted == Counted
            rates == RatesOfResponse
        IN  /\ [i \in DOMAIN rates |-> rates[i][1]] = Categories
            /\ \A i \in DOMAIN rates :
                LET category == rates[i][1]
                    list == rates[i][2]
                IN  /\ \A j \in DOMAIN list :
                        LET under == Under(counted, category, list[j].condition)
                        IN  /\ list[j].total_races = Cardinality(under)
                            /\ list[j].wins =
                                   Cardinality({k \in under : Finish(counted[k]) = 1})
                            /\ list[j].top3s =
                                   Cardinality({k \in under : Finish(counted[k]) <= 3})
                            /\ \A h \in DOMAIN list :
                                   list[h].condition = list[j].condition => h = j
                    /\ \A k \in DOMAIN counted :
                        \E j \in DOMAIN list :
                            list[j].condition = ExpectedKey(category, counted[k])
    /\ (Responding /\ df_past_races = ExampleFrame /\ request = NoFilters(request)) =>
        /\ Succeeded
        /\ DistanceTrack =
            << [condition |-> <<"Shiba", 1600, "m">>, total_races |-> 2, wins |-> 1,
                top3s |-> 1],
               [condition |-> <<"Daato", 1800, "m">>, total_races |-> 1, wins |-> 0,
                top3s |-> 1] >>

\* the example's three rows, requested without filters
CountersAreCounts_Witness ==
    /\ Responding
    /\ df_past_races = ExampleFrame
    /\ request = NoFilters(request)
    /\ Len(horse_filtered_df_for_rates) = Len(ExampleRows)

TrackConditionList ==
    RatesOfResponse[CHOOSE i \in DOMAIN RatesOfResponse :
                        RatesOfResponse[i][1] = "track_condition"][2]

RECURSIVE SumTotals(_)
SumTotals(list) ==
    IF list = <<>> THEN 0 ELSE Head(list).total_races + SumTotals(Tail(list))

\* C6: every counted record is counted under one key of track_condition, the
\* bucket of the first marker its label holds in the order slightly heavy, bad,
\* heavy, good, and the label itself when it holds none.
OneBucketByPrecedence ==
    (Succeeded /\ RatesOfResponse # <<>>) =>
        /\ SumTotals(TrackConditionList) = Len(Counted)
        /\ \A j \in DOMAIN TrackConditionList :
            TrackConditionList[j].total_races =
                Cardinality({k \in DOMAIN Counted :
                                BucketOf(Counted[k].baba_jotai)
                                    = TrackConditionList[j].condition})

\* counted records whose labels hold the letters of heavy and of bad, those of
\* slightly heavy and of bad, and no marker at all
OneBucketByPrecedence_Witness ==
    /\ Succeeded
    /\ \E k \in DOMAIN Counted : Counted[k].baba_jotai = <<"omo", "fu">>
    /\ \E k \in DOMAIN Counted : Counted[k].baba_jotai = <<"fu", "yaya", "omo">>
    /\ \E k \in DOMAIN Counted : Counted[k].baba_jotai = <<"yaya">>
    /\ \E j \in DOMAIN TrackConditionList : TrackConditionList[j].condition = <<"yaya">>

\* where a key of a category is met first among the counted records
FirstSeen(counted, category, key) ==
    LET under == Under(counted, category, key)
    IN  CHOOSE k \in under : \A h \in under : k <= h

\* P holds of every emitted list
EveryList(P(_, _)) ==
    \A i \in DOMAIN RatesOfResponse : P(RatesOfResponse[i][1], RatesOfResponse[i][2])

\* C7: in every list an entry stands before the entries with fewer races, and
\* before those with as many races whose key is met later among the counted
\* records.
SortedByRacesThenFirstSeen ==
    LET counted == Counted
        Ordered(category, list) ==
            \A a \in DOMAIN list : \A b \in DOMAIN list :
                a < b =>
                    \/ list[a].total_races > list[b].total_races
                    \/ /\ list[a].total_races = list[b].total_races
                       /\ FirstSeen(counted, category, list[a].condition)
                              < FirstSeen(counted, category, list[b].condition)
    IN  EveryList(Ordered)

\* a list with a tie, and a list whose first key was met after its second
SortedByRacesThenFirstSeen_Witness ==
    /\ \E i \in DOMAIN RatesOfResponse :
        LET list == RatesOfResponse[i][2]
        IN  Len(list) >= 2 /\ list[1].total_races = list[2].total_races
    /\ \E i \in DOMAIN RatesOfResponse :
        LET list == RatesOfResponse[i][2]
        IN  /\ Len(list) >= 2
            /\ FirstSeen(Counted, RatesOfResponse[i][1], list[1].condition)
                   > FirstSeen(Counted, RatesOfResponse[i][1], list[2].condition)

\* the request with a distance bound taken away
WithoutMin(req) == [req EXCEPT !.distance_min = Absent]

WithoutMax(req) == [req EXCEPT !.distance_max = Absent]

\* a bound that is given and is no integer
Malformed(text) == text # Absent /\ ~ParseInt(text).ok

\* C10: a request with a distance bound that is no integer gets the response of
\* the same request without that bound, and this is a result (status 200)
\* unless the frame is empty, which is answered as data not loaded whatever
\* the request.
MalformedBoundIsIgnored ==
    Responding =>
        /\ Malformed(request.distance_min) =>
               response = api_get_horse_past_data(df_past_races, WithoutMin(request)).response
        /\ Malformed(request.distance_max) =>
               response = api_get_horse_past_data(df_past_races, WithoutMax(request)).response
        /\ (Malformed(request.distance_min) \/ Malformed(request.distance_max)) =>
               (Succeeded \/ df_past_races = EmptyFrame)

\* a malformed lower bound next to an upper bound that drops some of the races
\* of the horse and keeps others
MalformedBoundIsIgnored_Witness ==
    /\ Succeeded
    /\ Malformed(request.distance_min)
    /\ ParseInt(request.distance_max).ok
    /\ horse_filtered_df_for_rates # <<>>
    /\ Len(horse_filtered_df_for_rates) < Len(response.body.past_races)

\* C8 as stated: a loaded dataset without a record under the requested name,
\* the empty dataset included, is answered with the empty result.
NoRecordIsEmptyResult ==
    (Responding /\ load_result = "ok" /\ ExpectedPastRaces = <<>>) =>
        response = Success(<<>>, <<>>)

\* C9 as stated: after a load that failed, a request is answered with the
\* data-unavailable error.
FailedLoadIsUnavailable ==
    (Responding /\ load_result = "failed") => response = ErrorResponse

\* the four ground conditions a request may filter on
GroundConditions == {Ryo, YayaOmo, Omo, FuRyo}

\* C11 as stated: when the request gives one of the four ground conditions,
\* every record kept for the rates is one that the bucketing rule puts in that
\* condition, and the track_condition list of the response holds no other key.
FilterAgreesWithBuckets ==
    (Succeeded /\ request.track_condition \in GroundConditions) =>
        /\ \A k \in DOMAIN horse_filtered_df_for_rates :
            BucketOf(horse_filtered_df_for_rates[k].baba_jotai) = request.track_condition
        /\ RatesOfResponse # <<>> =>
            \A j \in DOMAIN TrackConditionList :
                TrackConditionList[j].condition = request.track_condition

====
